---- MODULE Spec2Model ----
(***************************************************************************)
(* Model of the LRU cache of src/src/lib.rs: a doubly linked list of nodes *)
(* addressed by integer ids (Graph) under a key -> id index (LruCache).    *)
(* Option<T> is modelled as a sequence: None is <<>>, Some(x) is <<x>>.    *)
(***************************************************************************)
EXTENDS Integers, Sequences, FiniteSets, TLC

\* ---- bounds of the model ----
MaxCap == 2     \* new(c) is called with c = 0 or c = MaxCap
MaxKey == 4     \* keys are 1..MaxKey
MaxId  == 4     \* at most MaxId node ids are minted

Keys   == 1..MaxKey
\* V is an unconstrained type parameter: the code moves values and never
\* looks at them, so two values that can be told apart are enough.
Values == {"aws", "gcp"}

\* ---- Option<T> ----
None == <<>>
Some(x) == <<x>>
is_some(o) == o # None
unwrap(o) == o[1]

\* ---- HashMap helpers (std::collections::HashMap as a function) ----
MapRemove(m, x) == [y \in DOMAIN m \ {x} |-> m[y]]
MapInsert(m, x, e) == [y \in DOMAIN m \cup {x} |-> IF y = x THEN e ELSE m[y]]
EmptyMap == [y \in {} |-> None]

\* HashMap::with_capacity(n).capacity(): the table gets the smallest power of
\* two of buckets (at least 4) that holds n entries at a load of 7/8, except
\* that with_capacity(0) allocates nothing; a table of fewer than 8 buckets
\* holds buckets - 1 entries.
HashMapCapacity(n) ==
    IF n = 0 THEN 0
    ELSE IF n < 4 THEN 3
    ELSE IF n < 8 THEN 7
    ELSE IF n < 15 THEN 14
    ELSE 28

VARIABLES
    c,          \* the argument of LruCache::new
    node_ids,   \* LruCache.node_ids : key -> node id
    graph,      \* LruCache.graph : [nodes, head_id, tail_id]
    id,         \* LruCache.id
    panicked,   \* an unwrap() was applied to None; the call did not return
    last,       \* the last call and what it returned
    touched,    \* history: the present keys in the order of their last touch
    stored,     \* history: key -> the value given when the key was inserted
                \* while absent, None once the key is evicted or removed
    script,     \* the next call of tests::test_cache, 0 when it is not run
    abs,        \* the abstract cache run side by side: the (key, value)
                \* pairs from least to most recently used
    abs_ret,    \* what the abstract cache returned to the last call
    since       \* history, kept by SpecAge: key -> the number of inserts of
                \* absent keys since the key's last touch or the last remove

vars == <<c, node_ids, graph, id, panicked, last, touched, stored, script,
          abs, abs_ret, since>>

\* ---- struct Node ----
Node(next_id, prev_id, element) ==
    [next_id |-> next_id, prev_id |-> prev_id, element |-> element]

\* ---- Graph::with_capacity ----
Graph_with_capacity ==
    [nodes |-> EmptyMap, head_id |-> None, tail_id |-> None]

\* Result of a Graph method: the graph afterwards, the returned Option and
\* whether an unwrap() inside it panicked.
Result(g, ret, panic) == [g |-> g, ret |-> ret, panic |-> panic]

\* ---- Graph::remove ----
\* Graph::remove with one of its updates left out: splice = FALSE leaves the
\* neighbours of an interior node as they were, fix_tail = FALSE leaves
\* tail_id as it was when the tail is removed.
Graph_remove_without(g, node_id, splice, fix_tail) ==
    IF node_id \notin DOMAIN g.nodes
    THEN Result(g, None, FALSE)
    ELSE
      LET node == g.nodes[node_id]
          rest == MapRemove(g.nodes, node_id)
          g1 == [g EXCEPT !.nodes = rest]
      IN
      IF is_some(node.prev_id) /\ is_some(node.next_id) THEN
          LET prev_id == unwrap(node.prev_id)
              next_id == unwrap(node.next_id)
          IN IF prev_id \in DOMAIN rest /\ next_id \in DOMAIN rest /\ prev_id # next_id
             THEN Result(IF splice
                         THEN [g1 EXCEPT !.nodes =
                                 [rest EXCEPT ![next_id].prev_id = Some(prev_id),
                                              ![prev_id].next_id = Some(next_id)]]
                         ELSE g1,
                         Some(node.element), FALSE)
             ELSE Result(g1, None, TRUE)
      ELSE IF is_some(node.prev_id) THEN
          LET prev_id == unwrap(node.prev_id)
          IN IF prev_id \in DOMAIN rest
             THEN Result([g1 EXCEPT !.nodes = [rest EXCEPT ![prev_id].next_id = None],
                                    !.tail_id = IF fix_tail THEN Some(prev_id) ELSE @],
                         Some(node.element), FALSE)
             ELSE Result(g1, None, TRUE)
      ELSE IF is_some(node.next_id) THEN
          LET next_id == unwrap(node.next_id)
          IN IF next_id \in DOMAIN rest
             THEN Result([g1 EXCEPT !.nodes = [rest EXCEPT ![next_id].prev_id = None],
                                    !.head_id = Some(next_id)],
                         Some(node.element), FALSE)
             ELSE Result(g1, None, TRUE)
      ELSE Result([g1 EXCEPT !.head_id = None, !.tail_id = None],
                  Some(node.element), FALSE)

Graph_remove_no_splice(g, node_id) == Graph_remove_without(g, node_id, FALSE, TRUE)
Graph_remove_keeps_tail(g, node_id) == Graph_remove_without(g, node_id, TRUE, FALSE)

Graph_remove(g, node_id) ==
    IF node_id \notin DOMAIN g.nodes
    THEN Result(g, None, FALSE)
    ELSE
      LET node == g.nodes[node_id]
          rest == MapRemove(g.nodes, node_id)
          g1 == [g EXCEPT !.nodes = rest]
      IN
      IF is_some(node.prev_id) /\ is_some(node.next_id) THEN
          LET prev_id == unwrap(node.prev_id)
              next_id == unwrap(node.next_id)
          IN IF prev_id \in DOMAIN rest /\ next_id \in DOMAIN rest /\ prev_id # next_id
             THEN Result([g1 EXCEPT !.nodes =
                            [rest EXCEPT ![next_id].prev_id = Some(prev_id),
                                         ![prev_id].next_id = Some(next_id)]],
                         Some(node.element), FALSE)
             ELSE Result(g1, None, TRUE)
      ELSE IF is_some(node.prev_id) THEN
          LET prev_id == unwrap(node.prev_id)
          IN IF prev_id \in DOMAIN rest
             THEN Result([g1 EXCEPT !.nodes = [rest EXCEPT ![prev_id].next_id = None],
                                    !.tail_id = Some(prev_id)],
                         Some(node.element), FALSE)
             ELSE Result(g1, None, TRUE)
      ELSE IF is_some(node.next_id) THEN
          LET next_id == unwrap(node.next_id)
          IN IF next_id \in DOMAIN rest
             THEN Result([g1 EXCEPT !.nodes = [rest EXCEPT ![next_id].prev_id = None],
                                    !.head_id = Some(next_id)],
                         Some(node.element), FALSE)
             ELSE Result(g1, None, TRUE)
      ELSE Result([g1 EXCEPT !.head_id = None, !.tail_id = None],
                  Some(node.element), FALSE)

\* ---- Graph::pop_front ----
Graph_pop_front_tail(g) ==
    IF g.tail_id = None
    THEN Result(g, None, FALSE)
    ELSE Graph_remove(g, unwrap(g.tail_id))

Graph_pop_front(g) ==
    IF g.head_id = None
    THEN Result(g, None, FALSE)
    ELSE Graph_remove(g, unwrap(g.head_id))

\* ---- Graph::push_back ----
Graph_push_back_no_prev(g, node_id, element) ==
    LET old == g.tail_id
        g1 == [g EXCEPT !.tail_id = Some(node_id)]
    IN IF is_some(old) THEN
           LET tail_id == unwrap(old)
           IN IF tail_id \in DOMAIN g1.nodes
              THEN Result([g1 EXCEPT !.nodes =
                            MapInsert([g1.nodes EXCEPT ![tail_id].next_id = Some(node_id)],
                                      node_id, Node(None, None, element))],
                          None, FALSE)
              ELSE Result(g1, None, TRUE)
       ELSE Result([g1 EXCEPT !.head_id = Some(node_id),
                              !.nodes = MapInsert(g1.nodes, node_id,
                                                  Node(None, None, element))],
                   None, FALSE)

Graph_push_back(g, node_id, element) ==
    LET old == g.tail_id
        g1 == [g EXCEPT !.tail_id = Some(node_id)]
    IN IF is_some(old) THEN
           LET tail_id == unwrap(old)
           IN IF tail_id \in DOMAIN g1.nodes
              THEN Result([g1 EXCEPT !.nodes =
                            MapInsert([g1.nodes EXCEPT ![tail_id].next_id = Some(node_id)],
                                      node_id, Node(None, Some(tail_id), element))],
                          None, FALSE)
              ELSE Result(g1, None, TRUE)
       ELSE Result([g1 EXCEPT !.head_id = Some(node_id),
                              !.nodes = MapInsert(g1.nodes, node_id,
                                                  Node(None, None, element))],
                   None, FALSE)

\* ---- Graph::get ----
Graph_get_in_place(g, node_id) ==
    IF node_id \in DOMAIN g.nodes
    THEN Result(g, Some(g.nodes[node_id].element), FALSE)
    ELSE Result(g, None, FALSE)

Graph_get_tail_element(g, node_id) ==
    LET r == Graph_remove(g, node_id)
    IN IF r.panic \/ r.ret = None THEN r
       ELSE LET p == Graph_push_back(r.g, node_id, unwrap(r.ret))
            IN IF p.panic THEN p
               ELSE Result(p.g, Some(p.g.nodes[unwrap(g.tail_id)].element), FALSE)

Graph_get(g, node_id) ==
    LET r == Graph_remove(g, node_id)
    IN IF r.panic \/ r.ret = None THEN r
       ELSE LET p == Graph_push_back(r.g, node_id, unwrap(r.ret))
            IN IF p.panic THEN p
               ELSE IF node_id \in DOMAIN p.g.nodes
                    THEN Result(p.g, Some(p.g.nodes[node_id].element), FALSE)
                    ELSE Result(p.g, None, TRUE)

\* ---- LruCache::len, LruCache::capacity ----
len == Cardinality(DOMAIN node_ids)

\* node_ids is built by HashMap::with_capacity(c) and an entry is only added
\* to it while len() < capacity(), so the table is never reallocated.
capacity == HashMapCapacity(c)

\* the eviction test of LruCache::insert
at_capacity_never == len > capacity
at_capacity_early == len + 1 >= capacity
at_capacity == len = capacity

\* ---- the recency walk: elements from head_id along next_id ----
RECURSIVE WalkFrom(_, _, _)
WalkFrom(g, o, fuel) ==
    IF o = None \/ fuel = 0 \/ unwrap(o) \notin DOMAIN g.nodes THEN <<>>
    ELSE <<unwrap(o)>> \o WalkFrom(g, g.nodes[unwrap(o)].next_id, fuel - 1)

WalkIds(g) == WalkFrom(g, g.head_id, Cardinality(DOMAIN g.nodes))

\* ---- the reverse walk: ids from tail_id along prev_id ----
RECURSIVE WalkBackFrom(_, _, _)
WalkBackFrom(g, o, fuel) ==
    IF o = None \/ fuel = 0 \/ unwrap(o) \notin DOMAIN g.nodes THEN <<>>
    ELSE <<unwrap(o)>> \o WalkBackFrom(g, g.nodes[unwrap(o)].prev_id, fuel - 1)

WalkBackIds(g) == WalkBackFrom(g, g.tail_id, Cardinality(DOMAIN g.nodes))
Reverse(s) == [i \in 1..Len(s) |-> s[Len(s) + 1 - i]]
WalkElems(g) == [i \in 1..Len(WalkIds(g)) |-> g.nodes[WalkIds(g)[i]].element]
WalkKeys(g) == [i \in 1..Len(WalkIds(g)) |-> g.nodes[WalkIds(g)[i]].element[1]]

\* ---- sequence helpers for the history ----
RECURSIVE Without(_, _)
Without(s, x) ==
    IF s = <<>> THEN <<>>
    ELSE IF Head(s) = x THEN Without(Tail(s), x)
    ELSE <<Head(s)>> \o Without(Tail(s), x)

RECURSIVE Restrict(_, _)
Restrict(s, S) ==
    IF s = <<>> THEN <<>>
    ELSE IF Head(s) \in S THEN <<Head(s)>> \o Restrict(Tail(s), S)
    ELSE Restrict(Tail(s), S)

Touch(s, k, present) == Restrict(Without(s, k) \o <<k>>, present)

\* A call as recorded in last: its name, its arguments, what it returned and
\* the key whose entry it evicted.
Call(op, k, v, ret, evicted) ==
    [op |-> op, k |-> k, v |-> v, ret |-> ret, evicted |-> evicted]

\* ---- tests::test_cache: its calls, and for each call the value its
\* assert_eq! expects of a get ----
TestCall(op, k, v, ret) == [op |-> op, k |-> k, v |-> v, ret |-> ret]

test_cache ==
    << TestCall("insert", 1, Some("aws"), None),
       TestCall("get", 1, None, Some("aws")),
       TestCall("insert", 2, Some("gcp"), None),
       TestCall("insert", 3, Some("azure"), None),
       TestCall("get", 3, None, Some("azure")),
       TestCall("insert", 4, Some("vmware"), None),
       TestCall("get", 2, None, Some("gcp")),
       TestCall("get", 1, None, None),
       TestCall("insert", 5, Some("val"), None),
       TestCall("get", 5, None, Some("val")),
       TestCall("get", 4, None, Some("vmware")),
       TestCall("get", 3, None, None),
       TestCall("get", 2, None, Some("gcp")),
       TestCall("get", 1, None, None) >>

TestKeys == {test_cache[i].k : i \in DOMAIN test_cache}
TestValues == {unwrap(test_cache[i].v) : i \in {j \in DOMAIN test_cache : is_some(test_cache[j].v)}}
in_test == script \in DOMAIN test_cache

\* ---- LruCache::new ----
Init ==
    /\ c \in {0, MaxCap}
    /\ node_ids = EmptyMap
    /\ graph = Graph_with_capacity
    /\ id = 0
    /\ panicked = FALSE
    /\ last = Call("new", None, None, None, None)
    /\ touched = <<>>
    /\ stored = [k \in Keys |-> None]
    /\ script = 0
    /\ abs = <<>>
    /\ abs_ret = None
    /\ since = [k \in Keys |-> 0]

\* ---- LruCache::get ----
get_or_default(k) ==
    /\ ~panicked
    /\ LET node_id == IF k \in DOMAIN node_ids THEN node_ids[k] ELSE 0
           r == Graph_get(graph, node_id)
       IN IF r.panic \/ r.ret = None
          THEN /\ last' = Call("get", Some(k), None, None, None)
               /\ UNCHANGED <<c, node_ids, graph, id, panicked, touched, stored>>
          ELSE /\ graph' = r.g
               /\ UNCHANGED <<c, node_ids, id, panicked, stored>>
               /\ last' = Call("get", Some(k), None, Some(unwrap(r.ret)[2]), None)
               /\ touched' = Touch(touched, unwrap(r.ret)[1], DOMAIN node_ids')

get(k) ==
    /\ ~panicked
    /\ IF k \notin DOMAIN node_ids
       THEN /\ last' = Call("get", Some(k), None, None, None)
            /\ UNCHANGED <<c, node_ids, graph, id, panicked, touched, stored>>
       ELSE LET r == Graph_get(graph, node_ids[k])
            IN /\ graph' = r.g
               /\ UNCHANGED <<c, node_ids, id, stored>>
               /\ IF r.panic \/ r.ret = None
                  THEN /\ panicked' = TRUE
                       /\ last' = Call("get", Some(k), None, None, None)
                       /\ UNCHANGED touched
                  ELSE /\ panicked' = FALSE
                       /\ last' = Call("get", Some(k), None, Some(unwrap(r.ret)[2]), None)
                       /\ touched' = Touch(touched, k, DOMAIN node_ids')

\* ---- LruCache::remove ----
remove_keeps_index(k) ==
    /\ ~panicked
    /\ IF k \notin DOMAIN node_ids
       THEN /\ last' = Call("remove", Some(k), None, None, None)
            /\ UNCHANGED <<c, node_ids, graph, id, panicked, touched, stored>>
       ELSE LET r == Graph_remove(graph, node_ids[k])
            IN /\ graph' = r.g
               /\ UNCHANGED <<c, node_ids, id>>
               /\ IF r.panic \/ r.ret = None
                  THEN /\ panicked' = TRUE
                       /\ last' = Call("remove", Some(k), None, None, None)
                       /\ UNCHANGED <<touched, stored>>
                  ELSE /\ panicked' = FALSE
                       /\ last' = Call("remove", Some(k), None, Some(unwrap(r.ret)[2]), None)
                       /\ touched' = Restrict(touched, DOMAIN node_ids')
                       /\ stored' = [x \in DOMAIN stored |->
                                        IF x = k THEN None ELSE stored[x]]

remove(k) ==
    /\ ~panicked
    /\ IF k \notin DOMAIN node_ids
       THEN /\ last' = Call("remove", Some(k), None, None, None)
            /\ UNCHANGED <<c, node_ids, graph, id, panicked, touched, stored>>
       ELSE LET r == Graph_remove(graph, node_ids[k])
            IN /\ node_ids' = MapRemove(node_ids, k)
               /\ graph' = r.g
               /\ UNCHANGED <<c, id>>
               /\ IF r.panic \/ r.ret = None
                  THEN /\ panicked' = TRUE
                       /\ last' = Call("remove", Some(k), None, None, None)
                       /\ UNCHANGED <<touched, stored>>
                  ELSE /\ panicked' = FALSE
                       /\ last' = Call("remove", Some(k), None, Some(unwrap(r.ret)[2]), None)
                       /\ touched' = Restrict(touched, DOMAIN node_ids')
                       /\ stored' = [x \in DOMAIN stored |->
                                        IF x = k THEN None ELSE stored[x]]

\* ---- LruCache::insert, the key is present: the node is touched and the
\* new value is dropped ----
insert_present_upsert(g, node_id, v) ==
    LET r == Graph_get(g, node_id)
    IN IF r.panic \/ r.ret = None THEN r
       ELSE [r EXCEPT !.g.nodes[node_id].element[2] = v]

insert_present(g, node_id, v) == Graph_get(g, node_id)

\* ---- LruCache::insert, self.id += 1 ----
next_node_id_same(i) == i
next_node_id(i) == i + 1

\* ---- LruCache::insert ----
insert(k, v) ==
    /\ ~panicked
    /\ IF k \in DOMAIN node_ids
       THEN LET r == insert_present(graph, node_ids[k], v)
            IN /\ graph' = r.g
               /\ UNCHANGED <<c, node_ids, id, stored>>
               /\ IF r.panic \/ r.ret = None
                  THEN /\ panicked' = TRUE
                       /\ last' = Call("insert", Some(k), Some(v), None, None)
                       /\ UNCHANGED touched
                  ELSE /\ panicked' = FALSE
                       /\ last' = Call("insert", Some(k), Some(v), None, None)
                       /\ touched' = Touch(touched, k, DOMAIN node_ids')
       ELSE /\ (id < MaxId \/ in_test)
            /\ id' = next_node_id(id)
            /\ UNCHANGED c
            /\ LET node_id == id
                   full == at_capacity
                   e == IF full THEN Graph_pop_front(graph)
                                ELSE Result(graph, None, FALSE)
               IN IF full /\ (e.panic \/ e.ret = None)
                  THEN /\ panicked' = TRUE
                       /\ graph' = e.g
                       /\ last' = Call("insert", Some(k), Some(v), None, None)
                       /\ UNCHANGED <<node_ids, touched, stored>>
                  ELSE LET ids1 == IF full THEN MapRemove(node_ids, unwrap(e.ret)[1])
                                           ELSE node_ids
                           p == Graph_push_back(e.g, node_id, <<k, v>>)
                       IN /\ node_ids' = MapInsert(ids1, k, node_id)
                          /\ graph' = p.g
                          /\ panicked' = p.panic
                          /\ IF p.panic
                             THEN /\ last' = Call("insert", Some(k), Some(v), None, None)
                                  /\ UNCHANGED <<touched, stored>>
                             ELSE /\ last' = Call("insert", Some(k), Some(v), None,
                                                  IF full THEN Some(unwrap(e.ret)[1])
                                                          ELSE None)
                                  /\ touched' = Touch(touched, k, DOMAIN node_ids')
                                  /\ stored' = [x \in Keys |->
                                        IF x = k THEN Some(v)
                                        ELSE IF full /\ x = unwrap(e.ret)[1] THEN None
                                        ELSE stored[x]]

\* ---- the abstract cache: one sequence of (key, value) pairs with distinct
\* keys, the least recently used first; its bound is what capacity() reports ----
abs_keys(s) == {s[i][1] : i \in DOMAIN s}
abs_value(s, k) == s[CHOOSE i \in DOMAIN s : s[i][1] = k][2]
abs_touch(s, k) == Without(s, <<k, abs_value(s, k)>>) \o << <<k, abs_value(s, k)>> >>

abs_get(s, k) ==
    IF k \in abs_keys(s)
    THEN [seq |-> abs_touch(s, k), ret |-> Some(abs_value(s, k))]
    ELSE [seq |-> s, ret |-> None]

abs_remove(s, k) ==
    IF k \in abs_keys(s)
    THEN [seq |-> Without(s, <<k, abs_value(s, k)>>), ret |-> Some(abs_value(s, k))]
    ELSE [seq |-> s, ret |-> None]

abs_insert(s, k, v) ==
    IF k \in abs_keys(s)
    THEN [seq |-> abs_touch(s, k), ret |-> None]
    ELSE LET kept == IF Len(s) < capacity THEN s ELSE SubSeq(s, 2, Len(s))
         IN [seq |-> kept \o << <<k, v>> >>, ret |-> None]

\* the abstract cache takes the same call
abs_step(r) == abs' = r.seq /\ abs_ret' = r.ret

\* ---- the count of inserts of absent keys a present key has seen since it
\* was last touched (by get or insert) and since the last call of remove ----
age_step(op, k) ==
    since' = [x \in DOMAIN since |->
                IF op = "remove" \/ x = k \/ x \notin DOMAIN node_ids THEN 0
                ELSE IF op = "insert" /\ k \notin DOMAIN node_ids THEN since[x] + 1
                ELSE since[x]]

Next ==
    \/ \E k \in Keys : get(k) /\ abs_step(abs_get(abs, k)) /\ UNCHANGED <<script, since>>
    \/ \E k \in Keys : remove(k) /\ abs_step(abs_remove(abs, k)) /\ UNCHANGED <<script, since>>
    \/ \E k \in Keys, v \in Values :
           insert(k, v) /\ abs_step(abs_insert(abs, k, v)) /\ UNCHANGED <<script, since>>

Spec == Init /\ [][Next]_vars

\* ---- the same calls, with the count of inserts kept ----
NextAge ==
    \/ \E k \in Keys :
           get(k) /\ abs_step(abs_get(abs, k)) /\ age_step("get", k) /\ UNCHANGED script
    \/ \E k \in Keys :
           remove(k) /\ abs_step(abs_remove(abs, k)) /\ age_step("remove", k) /\ UNCHANGED script
    \/ \E k \in Keys, v \in Values :
           insert(k, v) /\ abs_step(abs_insert(abs, k, v)) /\ age_step("insert", k) /\ UNCHANGED script

SpecAge == Init /\ [][NextAge]_vars

\* ---- tests::test_cache: LruCache::new(3), then the calls of the test one
\* by one; the cache stays in use after the test ----
InitTest ==
    /\ c = 3
    /\ node_ids = EmptyMap
    /\ graph = Graph_with_capacity
    /\ id = 0
    /\ panicked = FALSE
    /\ last = Call("new", None, None, None, None)
    /\ touched = <<>>
    /\ stored = [k \in Keys |-> None]
    /\ script = 1
    /\ abs = <<>>
    /\ abs_ret = None
    /\ since = [k \in Keys |-> 0]

TestStep ==
    /\ in_test
    /\ script' = script + 1
    /\ UNCHANGED since
    /\ LET call == test_cache[script]
       IN IF call.op = "get"
          THEN get(call.k) /\ abs_step(abs_get(abs, call.k))
          ELSE /\ insert(call.k, unwrap(call.v))
               /\ abs_step(abs_insert(abs, call.k, unwrap(call.v)))

NextTest ==
    \/ TestStep
    \/ ~in_test /\ \E k \in TestKeys :
           get(k) /\ abs_step(abs_get(abs, k)) /\ UNCHANGED <<script, since>>
    \/ ~in_test /\ \E k \in TestKeys :
           remove(k) /\ abs_step(abs_remove(abs, k)) /\ UNCHANGED <<script, since>>
    \/ ~in_test /\ \E k \in TestKeys, v \in TestValues :
           insert(k, v) /\ abs_step(abs_insert(abs, k, v)) /\ UNCHANGED <<script, since>>

SpecTest == InitTest /\ [][NextTest]_vars

\* ---- what the claims speak about ----
keys == DOMAIN node_ids
value_of(k) == graph.nodes[node_ids[k]].element[2]
arg_k == unwrap(last.k)

\* C1: after every call, len() <= capacity().
C1_LenWithinCapacity == len <= capacity

\* an insert of a new key into a full cache has returned
C1_Witness ==
    /\ last.op = "insert" /\ is_some(last.evicted)
    /\ len = capacity /\ capacity > 0

\* C2: an insert of an absent key into a full cache evicts exactly the entry
\* whose last touch (get hit or insert) is the oldest among the entries
\* present, and every other entry stays present.
C2_EvictsLeastRecentlyTouched ==
    [][(/\ last'.op = "insert" /\ id' = id + 1 /\ ~panicked'
        /\ unwrap(last'.k) \notin keys
        /\ len = capacity /\ len > 0)
       => (/\ last'.evicted = Some(touched[1])
           /\ DOMAIN node_ids' = (keys \ {touched[1]}) \cup {unwrap(last'.k)}
           /\ \A x \in keys \ {touched[1]} :
                  /\ node_ids'[x] = node_ids[x]
                  /\ graph'.nodes[node_ids[x]].element = graph.nodes[node_ids[x]].element)
      ]_vars

\* an eviction happened after the order of touches had departed from the
\* order of insertion: the first node survived it
C2_Witness ==
    /\ last.op = "insert" /\ is_some(last.evicted)
    /\ \E x \in keys : node_ids[x] = 0

\* C3: get(k) returns the value v of the insert(k, v) made while k was
\* absent, as long as k has been neither evicted nor removed since.
C3_InsertThenGet ==
    (last.op = "get" /\ ~panicked /\ is_some(stored[arg_k]))
        => last.ret = stored[arg_k]

C3_Witness ==
    /\ last.op = "get" /\ is_some(stored[arg_k]) /\ is_some(last.ret)
    /\ len > 1 /\ graph.head_id # Some(node_ids[arg_k])

\* C4: get(k) on a present k returns k's value, keeps len() and every value,
\* keeps the relative order of the other entries and makes k the tail.
C4_GetTouches ==
    [][(last'.op = "get" /\ ~panicked' /\ unwrap(last'.k) \in keys)
       => LET k == unwrap(last'.k)
              e == <<k, value_of(k)>>
          IN /\ last'.ret = Some(value_of(k))
             /\ Cardinality(DOMAIN node_ids') = len
             /\ node_ids' = node_ids
             /\ WalkElems(graph') = Without(WalkElems(graph), e) \o <<e>>
             /\ graph'.tail_id = Some(node_ids[k])
             /\ touched'[Len(touched')] = k
      ]_vars

\* a get hit on an entry that was the head of a list of three
C4_Witness ==
    /\ last.op = "get" /\ is_some(last.ret) /\ len = 3
    /\ graph.tail_id = Some(node_ids[arg_k])
    /\ node_ids[arg_k] < unwrap(graph.head_id)

\* C5: insert(k, v2) on a present k keeps k's value, makes k the tail,
\* keeps len() and evicts nothing, also when the cache is full.
C5_InsertPresentKeepsValue ==
    [][(last'.op = "insert" /\ ~panicked' /\ unwrap(last'.k) \in keys)
       => LET k == unwrap(last'.k)
              e == <<k, value_of(k)>>
          IN /\ graph'.nodes[node_ids'[k]].element = e
             /\ graph'.tail_id = Some(node_ids'[k])
             /\ WalkElems(graph') = Without(WalkElems(graph), e) \o <<e>>
             /\ DOMAIN node_ids' = keys
             /\ last'.evicted = None
             /\ stored' = stored
      ]_vars

\* insert(k, v2) has returned on a full cache where k holds another value
C5_Witness ==
    /\ last.op = "insert" /\ ~panicked /\ len = capacity
    /\ arg_k \in keys
    /\ value_of(arg_k) # unwrap(last.v)
    /\ graph.tail_id = Some(node_ids[arg_k])

\* C6: remove(k) returns k's value and decreases len() by 1 when k is
\* present, returns None and keeps len() when k is absent; a get(k) right
\* after it returns None.
C6_Remove ==
    [][/\ (last'.op = "remove" /\ ~panicked' /\ last' # last) =>
            LET k == unwrap(last'.k)
            IN IF k \in keys
               THEN /\ last'.ret = Some(value_of(k))
                    /\ Cardinality(DOMAIN node_ids') = len - 1
                    /\ k \notin DOMAIN node_ids'
               ELSE /\ last'.ret = None
                    /\ Cardinality(DOMAIN node_ids') = len
       /\ (last.op = "remove" /\ last'.op = "get" /\ last'.k = last.k) =>
            last'.ret = None
      ]_vars

\* a remove has returned the value of an entry of a cache that held three
C6_Witness ==
    /\ last.op = "remove" /\ is_some(last.ret)
    /\ len = 2 /\ arg_k \notin keys
    /\ \E x \in keys, y \in keys : node_ids[x] < id - 2 /\ node_ids[y] = id - 1

\* C7: get(k) on an absent k returns None and leaves the key index, the
\* nodes and their links, head and tail and the id counter unchanged.
C7_GetMissChangesNothing ==
    [][(last'.op = "get" /\ unwrap(last'.k) \notin keys)
       => /\ last'.ret = None
          /\ UNCHANGED <<node_ids, graph, id, touched, stored, panicked>>
      ]_vars

\* a get miss on a cache that holds entries
C7_Witness ==
    /\ last.op = "get" /\ last.ret = None /\ len = capacity /\ len > 0

\* C8: capacity() returns the c given to new(c).
C8_CapacityIsConstructionBound == capacity = c

\* C9: on a cache built by new(0) every insert returns and leaves len() = 0,
\* and every get returns None.
C9_ZeroCapacityIsNoOpStore ==
    c = 0 => (/\ ~panicked
              /\ len = 0
              /\ (last.op = "get" => last.ret = None))

\* C10: no call applies unwrap() to None.
C10_NoUnwrapOnNone == ~panicked

\* C11: on LruCache::new(3) the calls of tests::test_cache return, the gets
\* give aws, azure, gcp, None, val, vmware, None, gcp, None in this order,
\* insert(4) evicts key 1, insert(5) evicts key 3 and no other call evicts.
C11_TestCache ==
    [][(in_test /\ script' = script + 1)
       => /\ ~panicked'
          /\ last'.op = test_cache[script].op
          /\ last'.k = Some(test_cache[script].k)
          /\ last'.ret = test_cache[script].ret
          /\ last'.evicted = (IF test_cache[script].k = 4 /\ test_cache[script].op = "insert"
                               THEN Some(1)
                               ELSE IF test_cache[script].k = 5 /\ test_cache[script].op = "insert"
                               THEN Some(3)
                               ELSE None)
      ]_vars

\* the last call of the test has returned
C11_Witness ==
    /\ script = Len(test_cache) + 1
    /\ last = Call("get", Some(1), None, None, None)
    /\ WalkKeys(graph) = <<5, 4, 2>>

\* C12: the key index and the arena are in 1:1 correspondence: every key of
\* node_ids maps to a live node that holds this key, every live node's key
\* is in node_ids and maps to the node's id, and both have the same size.
C12_IndexMatchesArena ==
    /\ \A k \in keys :
          /\ node_ids[k] \in DOMAIN graph.nodes
          /\ graph.nodes[node_ids[k]].element[1] = k
    /\ \A n \in DOMAIN graph.nodes :
          /\ graph.nodes[n].element[1] \in keys
          /\ node_ids[graph.nodes[n].element[1]] = n
    /\ Cardinality(keys) = Cardinality(DOMAIN graph.nodes)

\* a remove has returned a value after an eviction, two entries are left
C12_Witness ==
    /\ last.op = "remove" /\ is_some(last.ret)
    /\ id = capacity + 1 /\ len = 2

\* C13: the arena is a well-formed doubly linked list: the walk from head_id
\* along next_id visits every live node once and ends at tail_id, the walk
\* from tail_id along prev_id is its reverse, the head has no prev_id, the
\* tail no next_id, and head_id, tail_id are None exactly when nodes is empty.
C13_WellFormedList ==
    LET fw == WalkIds(graph)
        bw == WalkBackIds(graph)
        live == DOMAIN graph.nodes
        n == Cardinality(live)
    IN /\ Len(fw) = n
       /\ {fw[i] : i \in 1..Len(fw)} = live
       /\ bw = Reverse(fw)
       /\ n > 0 => /\ graph.head_id = Some(fw[1])
                   /\ graph.tail_id = Some(fw[n])
                   /\ graph.nodes[fw[1]].prev_id = None
                   /\ graph.nodes[fw[n]].next_id = None
       /\ (graph.head_id = None) <=> (n = 0)
       /\ (graph.tail_id = None) <=> (n = 0)

\* a get has moved the middle node of a list of three to the tail
C13_Witness ==
    LET fw == WalkIds(graph)
    IN /\ last.op = "get" /\ is_some(last.ret)
       /\ Len(fw) = 3
       /\ fw[1] < fw[3] /\ fw[3] < fw[2]

\* C14: insert(k, v) with k absent evicts exactly when len() = capacity():
\* below capacity nothing is removed and len() grows by 1; at capacity the
\* head, and only the head, leaves the arena and the key index and len() is
\* kept; in both cases (k, v) becomes the tail under the freshly minted id
\* and the other entries keep their nodes, values and order.
C14_InsertAbsent ==
    [][(last'.op = "insert" /\ unwrap(last'.k) \notin keys)
       => LET k == unwrap(last'.k)
              e == <<k, unwrap(last'.v)>>
              old == WalkElems(graph)
          IN /\ len < capacity =>
                  /\ ~panicked'
                  /\ last'.evicted = None
                  /\ Cardinality(DOMAIN node_ids') = len + 1
                  /\ node_ids' = MapInsert(node_ids, k, id)
                  /\ WalkElems(graph') = old \o <<e>>
                  /\ WalkIds(graph') = WalkIds(graph) \o <<id>>
             /\ (len = capacity /\ is_some(graph.head_id)) =>
                  /\ ~panicked'
                  /\ last'.evicted = Some(old[1][1])
                  /\ Cardinality(DOMAIN node_ids') = len
                  /\ node_ids' = MapInsert(MapRemove(node_ids, old[1][1]), k, id)
                  /\ WalkElems(graph') = Tail(old) \o <<e>>
                  /\ WalkIds(graph') = Tail(WalkIds(graph)) \o <<id>>
             /\ id \notin DOMAIN graph.nodes
      ]_vars

\* an insert below capacity and an evicting insert have both returned: the
\* cache is full of nodes younger than the first
C14_Witness ==
    /\ last.op = "insert" /\ is_some(last.evicted)
    /\ node_ids[arg_k] = id - 1
    /\ graph.tail_id = Some(id - 1)
    /\ 0 \notin DOMAIN graph.nodes

\* C15: remove(k) with k present deletes k from the recency sequence and
\* changes nothing else: the other entries keep their values, node ids and
\* relative order.
C15_RemoveSplices ==
    [][(last'.op = "remove" /\ ~panicked' /\ unwrap(last'.k) \in keys)
       => LET k == unwrap(last'.k)
          IN /\ WalkElems(graph') = Without(WalkElems(graph), <<k, value_of(k)>>)
             /\ WalkIds(graph') = Without(WalkIds(graph), node_ids[k])
             /\ Len(WalkIds(graph')) = Cardinality(DOMAIN graph.nodes) - 1
             /\ node_ids' = MapRemove(node_ids, k)
             /\ touched' = Without(touched, k)
             /\ id' = id
      ]_vars

\* a remove has taken a node out of a list of three whose order was not the
\* order of insertion
C15_Witness ==
    LET fw == WalkIds(graph)
    IN /\ last.op = "remove" /\ is_some(last.ret)
       /\ Len(fw) = 2 /\ fw[2] < fw[1]

\* C16: Graph::remove of a live node clears head_id and tail_id when it is
\* the only node, moves head_id to the successor and keeps tail_id when it
\* is the head of two or more, moves tail_id to the predecessor and keeps
\* head_id when it is the tail, keeps both when it is an interior node; of
\* an id that is not live it returns None and changes nothing.
C16_RemoveEndpoints ==
    \A node_id \in 0..MaxId :
        LET r == Graph_remove(graph, node_id)
            fw == WalkIds(graph)
            n == Len(fw)
        IN IF node_id \notin DOMAIN graph.nodes
           THEN r = Result(graph, None, FALSE)
           ELSE /\ ~r.panic
                /\ r.ret = Some(graph.nodes[node_id].element)
                /\ DOMAIN r.g.nodes = DOMAIN graph.nodes \ {node_id}
                /\ n = 1 => (r.g.head_id = None /\ r.g.tail_id = None)
                /\ (n >= 2 /\ fw[1] = node_id) =>
                       (r.g.head_id = Some(fw[2]) /\ r.g.tail_id = graph.tail_id)
                /\ (n >= 2 /\ fw[n] = node_id) =>
                       (r.g.tail_id = Some(fw[n - 1]) /\ r.g.head_id = graph.head_id)
                /\ (n >= 3 /\ fw[1] # node_id /\ fw[n] # node_id) =>
                       (r.g.head_id = graph.head_id /\ r.g.tail_id = graph.tail_id)

\* Graph::remove has run on a list of three, which has a head, an interior
\* node and a tail
C16_Witness ==
    /\ last.op = "remove" /\ is_some(last.ret)
    /\ Cardinality(DOMAIN graph.nodes) = 2 /\ id = 3

\* C17: a get hit on k or an insert of a present k keeps k's node: the same
\* node id holds the same (key, value), it is the tail, no node is created
\* or deleted and the id counter stays.
C17_TouchRelocates ==
    [][(last'.op \in {"get", "insert"} /\ ~panicked' /\ unwrap(last'.k) \in keys)
       => LET k == unwrap(last'.k)
          IN /\ node_ids' = node_ids
             /\ DOMAIN graph'.nodes = DOMAIN graph.nodes
             /\ graph'.nodes[node_ids[k]].element = graph.nodes[node_ids[k]].element
             /\ graph'.tail_id = Some(node_ids[k])
             /\ graph'.nodes[node_ids[k]].next_id = None
             /\ id' = id
      ]_vars

\* an insert of a present key has moved the oldest node to the tail
C17_Witness ==
    /\ last.op = "insert" /\ ~panicked /\ arg_k \in keys
    /\ len = 3
    /\ node_ids[arg_k] = 0 /\ graph.tail_id = Some(0)

\* C18: the id counter never decreases; a new node gets the value of the
\* counter, which then grows by 1, so every live node id is below the
\* counter, distinct keys have distinct node ids and a minted id is not the
\* id of a live node.
C18_IdCounter ==
    [][/\ id' >= id
       /\ \A n \in DOMAIN graph'.nodes : n < id'
       /\ \A x, y \in DOMAIN node_ids' : node_ids'[x] = node_ids'[y] => x = y
       /\ (DOMAIN graph'.nodes \ DOMAIN graph.nodes) \subseteq {id}
       /\ id' # id => (id' = id + 1 /\ id \notin DOMAIN graph.nodes)
       /\ (DOMAIN node_ids' \ DOMAIN node_ids # {} /\ ~panicked') =>
              (id' = id + 1 /\ \A x \in DOMAIN node_ids' \ DOMAIN node_ids : node_ids'[x] = id)
      ]_vars

\* a key that was removed has been inserted again and got a new id
C18_Witness ==
    /\ last.op = "insert" /\ ~panicked /\ arg_k \in keys
    /\ node_ids[arg_k] = id - 1
    /\ len = 1 /\ id = 3

\* C19: run side by side with the abstract cache over any calls of insert,
\* get and remove on a cache of capacity >= 1, the walk of the arena from
\* head_id along next_id is the abstract sequence after every call and every
\* get and remove returns what the abstract cache returns.
C19_RefinesAbstractLru ==
    (capacity >= 1)
        => /\ ~panicked
           /\ WalkElems(graph) = abs
           /\ Len(abs) = Cardinality(DOMAIN graph.nodes)
           /\ abs_keys(abs) = keys
           /\ last.op \in {"get", "remove"} => last.ret = abs_ret

\* the abstract cache and the arena agree after a get hit that reordered a
\* full cache out of which an entry had been evicted
C19_Witness ==
    /\ capacity >= 1 /\ len = capacity
    /\ last.op = "get" /\ is_some(abs_ret)
    /\ 0 \notin DOMAIN graph.nodes
    /\ Len(abs) >= 2 /\ node_ids[abs[Len(abs)][1]] < node_ids[abs[1][1]]

\* C20: on a cache with capacity() >= 1 a present key has seen fewer than
\* capacity() inserts of absent keys since its last touch with no remove in
\* between: by the capacity()-th such insert it is evicted.
C20_EvictedWithinCapacityInserts ==
    (capacity >= 1 /\ ~panicked) => \A x \in keys : since[x] < capacity

\* the capacity()-th insert of an absent key since the last touch of a key
\* has evicted that key
C20_Witness ==
    /\ capacity >= 1 /\ ~panicked
    /\ last.op = "insert" /\ is_some(last.evicted)
    /\ since[unwrap(last.evicted)] = capacity
====
